---- MODULE Spec2Model ----
(***************************************************************************)
(* A model of osgit's subdomain discovery (osgit/sub/subdomain_finder.py): *)
(* the session driver SubdomainFinder.run, the rate-limited search client  *)
(* github_api_search_code and the fetch-extract workers                    *)
(* extract_subdomains_from_code that a 20-thread pool runs per page.       *)
(*                                                                         *)
(* Strings are sequences of one-character strings, so that lower(),        *)
(* strip(), replace() and the regular expression act on characters.        *)
(* A URL is a sequence of path segments (the text between the '/'), its    *)
(* first segment being scheme and host.                                    *)
(*                                                                         *)
(* Spec is a run of subdomain discovery.  PatternSpec applies              *)
(* setup_search_parameters and re.findall to sample domains and texts.     *)
(* PathSpec is a run of the path command (osgit/paths/path_extractor.py).  *)
(* PoolSpec is the thread pool of one run by numbers of tasks, on pages of  *)
(* up to 100 hits.  TokenSpec is a sequence of token commands (main.py) on  *)
(* the configuration file.                                                  *)
(***************************************************************************)
EXTENDS Integers, Sequences, FiniteSets, TLC

----------------------------------------------------------------------------
(* Bounds of the model *)

\* hits in one search page (GitHub returns up to per_page=100)
MaxHits == 2
\* pages of a strategy that carry hits; later pages are empty
MaxPage == 1
\* consecutive rate-limit responses the server gives to one search call
MaxRetry == 2

(* Program constants *)

\* Pool(20)
PoolSize == 20
\* per_page=100 in the search URL
PerPage == 100

\* a thread of the pool is free to take the next task
HasFreeThreadMutantAlways(running) == TRUE
HasFreeThread(running) == running < PoolSize
\* wait_time < 3600
HourSeconds == 3600

----------------------------------------------------------------------------
(* Python values *)

None == [type |-> "None"]
Str(chars) == [type |-> "str", chars |-> chars]
Dict(keys, items) == [type |-> "dict", keys |-> keys, items |-> items]

\* Python truth value of None, a str or a dict
Truthy(v) ==
    CASE v.type = "None" -> FALSE
      [] v.type = "str" -> v.chars # <<>>
      [] v.type = "dict" -> v.keys # {}

InSeq(x, s) == \E i \in 1..Len(s) : s[i] = x

\* list.remove(x): removes the first occurrence
RemoveMutantKeep(s, x) == s
RemoveMutantAll(s, x) == <<>>
Remove(s, x) ==
    LET i == CHOOSE k \in 1..Len(s) : s[k] = x /\ \A j \in 1..(k - 1) : s[j] # x
    IN  SubSeq(s, 1, i - 1) \o SubSeq(s, i + 1, Len(s))

----------------------------------------------------------------------------
(* Characters and strings *)

UpperOf == [a |-> "A", b |-> "B"]
LowerLetters == {"a", "b", "c", "d", "f", "h", "o"}
UpperLetters == {"A", "B"}
Whitespace == {" "}

\* str.lower() on one character
LowerChar(ch) ==
    IF ch \in UpperLetters
    THEN CHOOSE l \in DOMAIN UpperOf : UpperOf[l] = ch
    ELSE ch

\* str.lower()
Lower(s) == [i \in 1..Len(s) |-> LowerChar(s[i])]

\* str.strip(): drops leading and trailing whitespace
RECURSIVE LStrip(_)
LStrip(s) == IF s # <<>> /\ Head(s) \in Whitespace THEN LStrip(Tail(s)) ELSE s
RECURSIVE RStrip(_)
RStrip(s) ==
    IF s # <<>> /\ s[Len(s)] \in Whitespace THEN RStrip(SubSeq(s, 1, Len(s) - 1)) ELSE s
Strip(s) == RStrip(LStrip(s))

\* str.replace(old, new) for a one-character old
RECURSIVE ReplaceChar(_, _, _)
ReplaceChar(s, old, new) ==
    IF s = <<>> THEN <<>>
    ELSE (IF Head(s) = old THEN new ELSE <<Head(s)>>) \o ReplaceChar(Tail(s), old, new)

\* str.split('.')
RECURSIVE SplitDots(_, _)
SplitDots(s, cur) ==
    IF s = <<>> THEN <<cur>>
    ELSE IF Head(s) = "." THEN <<cur>> \o SplitDots(Tail(s), <<>>)
    ELSE SplitDots(Tail(s), Append(cur, Head(s)))

\* '.'.join(labels)
RECURSIVE JoinDots(_)
JoinDots(labels) ==
    IF labels = <<>> THEN <<>>
    ELSE IF Len(labels) = 1 THEN labels[1]
    ELSE labels[1] \o <<".">> \o JoinDots(Tail(labels))

----------------------------------------------------------------------------
(* Search parameters: tldextract.extract and setup_search_parameters *)

\* the public suffix list: "c" stands for a registry suffix such as "com"
PublicSuffixes == {<<"c">>}

\* tldextract.extract(domain): the longest public suffix, and the label before it;
\* without a public suffix the suffix is '' and the domain is the last label
Extract(domain) ==
    LET labels == SplitDots(domain, <<>>)
        n == Len(labels)
        cuts == {i \in 1..n : JoinDots(SubSeq(labels, i, n)) \in PublicSuffixes}
    IN  IF cuts = {}
        THEN [domain |-> labels[n], suffix |-> <<>>]
        ELSE LET i == CHOOSE c \in cuts : \A o \in cuts : c <= o
             IN  [domain |-> IF i > 1 THEN labels[i - 1] ELSE <<>>,
                  suffix |-> JoinDots(SubSeq(labels, i, n))]

\* the pattern ((?:[a-zA-Z0-9_-]+\.)*<literal>): it is kept as its escaped literal
Regexp(literal) == [literal |-> literal]

\* setup_search_parameters(domain, extend)
SetupSearchParameters(domain, extend) ==
    LET host_parse == Extract(domain)
        query == IF extend
                 THEN <<"\"">> \o host_parse.domain \o <<"\"">>
                 ELSE <<"\"">> \o host_parse.domain \o <<".">> \o host_parse.suffix \o <<"\"">>
        regexp == IF extend
                  THEN Regexp(host_parse.domain \o <<".">> \o host_parse.suffix)
                  ELSE Regexp(domain)
    IN  [search_query |-> ReplaceChar(query, "-", <<"%", "2", "D">>),
         domain_regexp |-> regexp]

----------------------------------------------------------------------------
(* re.findall(domain_regexp, code, re.IGNORECASE) *)

\* [a-zA-Z0-9_-]
IsLabelChar(ch) == ch \in LowerLetters \cup UpperLetters \cup {"-", "_"}

\* the position after the longest run of label characters that starts at p
RECURSIVE LabelEnd(_, _)
LabelEnd(code, p) ==
    IF p <= Len(code) /\ IsLabelChar(code[p]) THEN LabelEnd(code, p + 1) ELSE p

\* the literal matches at p, ignoring case
LiteralAt(code, p, lit) ==
    /\ p + Len(lit) - 1 <= Len(code)
    /\ \A k \in 1..Len(lit) : LowerChar(code[p + k - 1]) = LowerChar(lit[k])

\* the end (exclusive) of the match that starts at p, 0 when there is none:
\* the greedy star takes one more "label." when the rest still matches
RECURSIVE MatchEnd(_, _, _)
MatchEnd(code, p, lit) ==
    LET e == LabelEnd(code, p)
        more == IF e > p /\ e <= Len(code) /\ code[e] = "."
                THEN MatchEnd(code, e + 1, lit)
                ELSE 0
    IN  IF more # 0 THEN more
        ELSE IF LiteralAt(code, p, lit) THEN p + Len(lit)
        ELSE 0

\* the matches from position i on, left to right, without overlap
RECURSIVE FindAllFrom(_, _, _)
FindAllFrom(code, i, lit) ==
    IF i > Len(code) THEN <<>>
    ELSE LET e == MatchEnd(code, i, lit)
         IN  IF e > i
             THEN <<SubSeq(code, i, e - 1)>> \o FindAllFrom(code, e, lit)
             ELSE FindAllFrom(code, i + 1, lit)

FindAll(domain_regexp, code) == FindAllFrom(code, 1, domain_regexp.literal)

----------------------------------------------------------------------------
(* URLs *)

GithubHost == "https://github.com"
RawHost == "https://raw.githubusercontent.com"

\* str.replace('/blob/', '/'): drops the "blob" segments that have a segment on
\* both sides, left to right without overlap
RECURSIVE RemoveBlob(_, _)
RemoveBlob(segs, k) ==
    IF k >= Len(segs) THEN segs
    ELSE IF k > 1 /\ segs[k] = "blob"
    THEN RemoveBlob(SubSeq(segs, 1, k - 1) \o SubSeq(segs, k + 1, Len(segs)), k + 1)
    ELSE RemoveBlob(segs, k + 1)

\* get_raw_url(result), for a result that has the key 'html_url'
GetRawUrl(result) ==
    LET u == result.html_url
        hosted == IF Len(u) >= 2 /\ u[1] = GithubHost THEN <<RawHost>> \o Tail(u) ELSE u
    IN  RemoveBlob(hosted, 1)

----------------------------------------------------------------------------
(* The world outside the program *)

\* the target domains a run is started with: "d.c" and "h", which has no public suffix
DomainOK == <<"d", ".", "c">>
DomainBad == <<"h">>

\* a search hit (an element of 'items'), with and without the key 'html_url'
Hit(html_url) == [type |-> "dict", keys |-> {"html_url"}, html_url |-> html_url]
HitNoUrl == [type |-> "dict", keys |-> {"name"}, html_url |-> <<>>]

Url1 == <<GithubHost, "o", "r", "blob", "m", "f1">>
Url2 == <<GithubHost, "o", "r", "blob", "m", "f2">>
HitSet == {Hit(Url1), Hit(Url2), HitNoUrl}
RawUrls == {GetRawUrl(h) : h \in {x \in HitSet : "html_url" \in x.keys}}

\* the files behind the raw URLs: f1 is "a.d.c A.d.c h", f2 is "b.d.c a.d.c"
FileText(url) ==
    IF url[Len(url)] = "f1"
    THEN <<"a", ".", "d", ".", "c", " ", "A", ".", "d", ".", "c", " ", "h">>
    ELSE <<"b", ".", "d", ".", "c", " ", "a", ".", "d", ".", "c">>

\* the non-empty hit lists of a page
HitLists == UNION {[1..n -> HitSet] : n \in 1..MaxHits}

\* what the search endpoint may answer; reset_in is the reset epoch minus the
\* time of the response (X-RateLimit-Reset minus time.time())
Reply(exc, status, has_reset, reset_in, json_ok, json) ==
    [exc |-> exc, status |-> status, has_reset |-> has_reset, reset_in |-> reset_in,
     json_ok |-> json_ok, json |-> json]
NoReply == Reply(FALSE, 0, FALSE, 0, FALSE, None)
ErrorBody == Dict({"message", "documentation_url"}, <<>>)
ResetOffsets == {0, 5, HourSeconds}

----------------------------------------------------------------------------
(* github_api_search_code *)

\* lines 65-67: a reset header is present and 0 < wait_time < 3600
ShouldWaitMutantNoCap(response) == response.has_reset /\ response.reset_in > 0
ShouldWait(response) ==
    /\ response.has_reset
    /\ response.reset_in > 0
    /\ response.reset_in < HourSeconds

Replies(hits, page, depth) ==
    {Reply(TRUE, 0, FALSE, 0, FALSE, None)}
    \cup {Reply(FALSE, 200, FALSE, 0, TRUE, j) :
            j \in {ErrorBody, Dict({"items"}, <<>>), Dict({"total_count"}, <<>>)}}
    \cup {Reply(FALSE, 200, FALSE, 0, TRUE, Dict({"items"}, l)) :
            l \in IF page <= MaxPage THEN {hits} ELSE {}}
    \cup {Reply(FALSE, 403, FALSE, 0, FALSE, None), Reply(FALSE, 403, FALSE, 0, TRUE, ErrorBody)}
    \cup {r \in {Reply(FALSE, 403, TRUE, w, TRUE, ErrorBody) : w \in ResetOffsets} :
            ShouldWait(r) => depth < MaxRetry}

NoRequest == [type |-> "None"]
RequestMutantNextPage(token, search, page, sort, order) ==
    [type |-> "GET", token |-> token, search |-> search, page |-> page + 1,
     sort |-> sort, order |-> order]
Request(token, search, page, sort, order) ==
    [type |-> "GET", token |-> token, search |-> search, page |-> page,
     sort |-> sort, order |-> order]

----------------------------------------------------------------------------
(* Output lines *)

\* f"{fg(color)}{text}{attr(0)}"
Colored(color, kind, text) == [color |-> color, kind |-> kind, text |-> text]
BlankLine == [color |-> "", kind |-> "blank", text |-> <<>>]

\* re.sub(r'\033\[[0-9;]*m', '', ...) on one line
StripColorMutantKeep(line) == line
StripColor(line) == [line EXCEPT !.color = ""]

\* str.strip() of the output text: blank lines at both ends go
RECURSIVE StripLines(_)
StripLines(lines) ==
    IF lines # <<>> /\ Head(lines).kind = "blank" THEN StripLines(Tail(lines))
    ELSE IF lines # <<>> /\ lines[Len(lines)].kind = "blank"
    THEN StripLines(SubSeq(lines, 1, Len(lines) - 1))
    ELSE lines

----------------------------------------------------------------------------
(* The samples that setup_search_parameters and re.findall are applied to *)

\* the longest label of a sample domain
MaxLabel == 2

SampleLabels == UNION {[1..n -> {"c", "d"}] : n \in 1..MaxLabel}

\* domains of two labels
SampleDomains == {a \o <<".">> \o b : a, b \in SampleLabels}

\* the text 'foo.' followed by a domain
FooDot(name) == <<"f", "o", "o", ".">> \o name

----------------------------------------------------------------------------
(* PathExtractor *)

\* the most entries of a tree response
MaxTree == 3

\* a tree response body: its keys and the list under 'tree'
TreeBody(keys, tree) == [type |-> "dict", keys |-> keys, tree |-> tree]

\* an entry of the tree: item.get("path") is None when the key is missing
TreeItem(path) == [path |-> path]

PathSet == {<<"a", "/", "b", "/", "c">>, <<"a", "/", "b", "/", "d">>,
            <<"a", "/", "x">>, <<"/", "x">>}

TreeItems == {TreeItem(None), TreeItem(Str(<<>>))} \cup {TreeItem(Str(q)) : q \in PathSet}

Trees == UNION {[1..n -> TreeItems] : n \in 0..MaxTree}

\* str.split('/')
RECURSIVE SplitSlash(_, _)
SplitSlash(s, cur) ==
    IF s = <<>> THEN <<cur>>
    ELSE IF Head(s) = "/" THEN <<cur>> \o SplitSlash(Tail(s), <<>>)
    ELSE SplitSlash(Tail(s), Append(cur, Head(s)))

\* ord(c) for the characters of the paths
Ord(c) ==
    CASE c = "/" -> 47
      [] c = "a" -> 97
      [] c = "b" -> 98
      [] c = "c" -> 99
      [] c = "d" -> 100
      [] c = "x" -> 120

\* s < t for two str: the first difference decides, a proper prefix is smaller
RECURSIVE StrLess(_, _)
StrLess(s, t) ==
    IF t = <<>> THEN FALSE
    ELSE IF s = <<>> THEN TRUE
    ELSE IF Head(s) = Head(t) THEN StrLess(Tail(s), Tail(t))
    ELSE Ord(Head(s)) < Ord(Head(t))

\* x put into the sorted list l, behind the elements that are not greater
RECURSIVE Insert(_, _)
Insert(l, x) ==
    IF l = <<>> THEN <<x>>
    ELSE IF StrLess(x, Head(l)) THEN <<x>> \o l
    ELSE <<Head(l)>> \o Insert(Tail(l), x)

\* line 91: results.sort()
SortMutantNone(l) == l
RECURSIVE Sort(_)
Sort(l) == IF l = <<>> THEN <<>> ELSE Insert(Sort(SubSeq(l, 1, Len(l) - 1)), l[Len(l)])

\* lines 86-89: the segments of one path that are neither empty nor seen
RECURSIVE AddSegments(_, _)
AddSegments(acc, segments) ==
    IF segments = <<>> THEN acc
    ELSE LET segment == Head(segments)
         IN  AddSegments(IF segment # <<>> /\ segment \notin acc.seen
                         THEN [seen |-> acc.seen \cup {segment},
                               results |-> Append(acc.results, segment)]
                         ELSE acc,
                         Tail(segments))

\* lines 75-89: the loop over the entries of the tree
RECURSIVE ExtractLoop(_, _, _)
ExtractLoop(acc, tree, full_paths) ==
    IF tree = <<>> THEN acc
    ELSE LET path == Head(tree).path
             next == IF ~Truthy(path) THEN acc
                     ELSE IF full_paths
                     THEN IF path.chars \notin acc.seen
                          THEN [seen |-> acc.seen \cup {path.chars},
                                results |-> Append(acc.results, path.chars)]
                          ELSE acc
                     ELSE AddSegments(acc, SplitSlash(path.chars, <<>>))
         IN  ExtractLoop(next, Tail(tree), full_paths)

\* extract_paths_and_segments(tree_json, full_paths)
ExtractPathsAndSegments(tree_json, full_paths) ==
    IF ~Truthy(tree_json) \/ "tree" \notin tree_json.keys THEN <<>>
    ELSE Sort(ExtractLoop([seen |-> {}, results |-> <<>>], tree_json.tree, full_paths).results)

----------------------------------------------------------------------------
(* State *)

VARIABLES
    args,              \* the command line: domain, extend, source, output, token
    config,            \* github_tokens of the configuration file
    config_valid,      \* the configuration file is there and parses as JSON
    results,           \* the hits GitHub holds for the query, served on each page
    pc,                \* where SubdomainFinder.run is
    tokens,            \* run's local list of credentials
    output_fp,         \* self.output_fp: "None", "open" or "closed"
    search,            \* search_query and domain_regexp
    sort_idx,          \* index into sort_orders of the strategy being run
    page,
    available_tokens,
    token,             \* the credential picked for the current search call
    request,           \* the search request in flight
    depth,             \* recursion depth of github_api_search_code: reissues so far
    response,          \* the response being handled by github_api_search_code
    result_json,
    workers,           \* the tasks of the current pool.map, by position in 'items'
    history,           \* self.history
    history_urls,      \* self.history_urls
    stdout,            \* the blocks printed by the workers
    file,              \* the lines written to the output file
    fetched,           \* how often fetch_code requested each raw URL
    rx_domain,         \* a sample: the domain given to setup_search_parameters,
    rx_extend,         \*   its extend flag,
    rx_code,           \*   the text searched,
    rx_regexp,         \*   the pattern built
    rx_found,          \*   and what re.findall returned
    rx_pc,
    tree_response,     \* PathExtractor: the answer of the tree endpoint
    segments,          \* args.segments of the path command
    tree_data,
    path_results,      \* results of PathExtractor.run
    path_file,         \* the lines of the file written by save_results_to_file
    path_pc,           \* where PathExtractor.run is
    pool,              \* the pool and pool.map of one page, by numbers of tasks
    token_args         \* the token command being handled: token_action, token

sample == <<rx_domain, rx_extend, rx_code, rx_regexp, rx_found, rx_pc>>
extractor == <<tree_response, segments, tree_data, path_results, path_file, path_pc>>

\* what a run of subdomain discovery reads and never changes, and the state of
\* what it has no part in
inputs == <<args, config, config_valid, results, sample, extractor, pool, token_args>>
locals == <<tokens, search, sort_idx, page, available_tokens>>
call == <<token, request, depth, response, result_json>>
shared == <<history, history_urls, stdout, file, fetched>>

vars == <<inputs, pc, output_fp, locals, call, workers, shared>>

sort_ordersMutantSwapped == <<[sort |-> "indexed", order |-> "asc"],
                             [sort |-> "indexed", order |-> "desc"],
                             [sort |-> "", order |-> "desc"]>>
sort_orders == <<[sort |-> "indexed", order |-> "desc"],
                 [sort |-> "indexed", order |-> "asc"],
                 [sort |-> "", order |-> "desc"]>>

NoToken == ""
NoOutput == ""
NoSearch == [search_query |-> <<>>, domain_regexp |-> Regexp(<<>>)]

ConfigLists == {<<>>, <<"t1">>, <<"t1", "t2">>}

ArgsSet == [domain : {DomainOK, DomainBad}, extend : BOOLEAN, source : BOOLEAN,
            output : {NoOutput, "out.txt"}, token : {NoToken, "t3"}]

\* the runs explored: every output setting with the token override, every
\* configured token list without output options, every domain setting likewise
Explored(a, c) ==
    LET plain == ~a.source /\ a.output = NoOutput
        usual == a.domain = DomainOK /\ ~a.extend
    IN  \/ usual /\ a.token = "t3" /\ c = <<"t1">>
        \/ usual /\ a.token = NoToken /\ plain
        \/ plain /\ a.token = "t3" /\ c = <<"t1">>

\* the runs explored with a configuration file that does not parse: config is then
\* the list its text was meant to hold
ExploredUnparsed(a, c) ==
    a.domain = DomainOK /\ ~a.extend /\ ~a.source /\ a.output = NoOutput /\ c = <<"t1">>

IdleWorker == [pc |-> "idle", result |-> None, url |-> <<>>, matches |-> <<>>, idx |-> 0,
               local_history |-> <<>>, output |-> <<>>, subdomain |-> <<>>]
NoWorkers == [i \in 1..MaxHits |-> IdleWorker]
FinishedMutantAny(w) == TRUE
Finished(w) == w.pc \in {"returned", "raised"}
Running(w) == w.pc \in {"fetch", "match", "record", "emit"}

\* SubdomainFinder.__init__ and the locals of run before its first statement
FinderStart ==
    /\ pc = "start"
    /\ tokens = <<>>
    /\ output_fp = "None"
    /\ search = NoSearch
    /\ sort_idx = 0
    /\ page = 0
    /\ available_tokens = <<>>
    /\ token = NoToken
    /\ request = NoRequest
    /\ depth = 0
    /\ response = NoReply
    /\ result_json = None
    /\ workers = NoWorkers
    /\ history = <<>>
    /\ history_urls = <<>>
    /\ stdout = <<>>
    /\ file = <<>>
    /\ fetched = [u \in RawUrls |-> 0]

\* no sample is being matched
SampleIdle ==
    /\ rx_domain = <<>>
    /\ rx_extend = FALSE
    /\ rx_code = <<>>
    /\ rx_regexp = Regexp(<<>>)
    /\ rx_found = <<>>
    /\ rx_pc = "idle"

\* the path command is not run
ExtractorIdle ==
    /\ tree_response = NoReply
    /\ segments = FALSE
    /\ tree_data = None
    /\ path_results = <<>>
    /\ path_file = <<>>
    /\ path_pc = "idle"

\* no page is looked at by its numbers of tasks
PoolIdle == pool = [pc |-> "idle", page |-> 0, items |-> 0, queued |-> 0, running |-> 0,
                    stale |-> 0]

\* no token command is handled
TokenIdle == token_args = [token_action |-> "", token |-> <<>>]

Init ==
    /\ args \in ArgsSet
    /\ config \in ConfigLists
    /\ results \in HitLists
    /\ Explored(args, config)
    /\ config_valid \in BOOLEAN
    /\ config_valid \/ ExploredUnparsed(args, config)
    /\ FinderStart
    /\ SampleIdle
    /\ ExtractorIdle
    /\ PoolIdle
    /\ TokenIdle

\* main, lines 304-324: an exception leaves run, whose local variables and pool are
\* gone; the fields of the finder, the terminal and the file stay as they are
Unwind(how) ==
    /\ pc' = how
    /\ tokens' = <<>>
    /\ search' = NoSearch
    /\ sort_idx' = 0
    /\ page' = 0
    /\ available_tokens' = <<>>
    /\ token' = NoToken
    /\ request' = NoRequest
    /\ depth' = 0
    /\ response' = NoReply
    /\ result_json' = None
    /\ workers' = NoWorkers
    /\ UNCHANGED <<inputs, output_fp, shared>>

----------------------------------------------------------------------------
(* SubdomainFinder.run: setup *)

\* main.py, load_config and create_default_config: what load_config returns under
\* 'github_tokens' and what the file holds afterwards; a file that is missing or
\* does not parse is written anew with the default configuration
LoadConfigMutantReset(stored, valid) ==
    [github_tokens |-> <<>>, stored |-> <<>>, valid |-> TRUE]
LoadConfig(stored, valid) ==
    IF valid
    THEN [github_tokens |-> stored, stored |-> stored, valid |-> TRUE]
    ELSE [github_tokens |-> <<>>, stored |-> <<>>, valid |-> TRUE]

\* get_github_tokens(token_override)
GetGithubTokensMutantFallback(token_override, github_tokens) ==
    IF token_override # NoToken THEN <<token_override>>
    ELSE IF github_tokens = <<>> THEN <<"t1">> ELSE github_tokens
GetGithubTokens(token_override, github_tokens) ==
    IF token_override # NoToken THEN <<token_override>> ELSE github_tokens

\* lines 155-157
\* the configuration is loaded only when there is no override (lines 39-42)
GetTokens ==
    /\ pc = "start"
    /\ LET read == args.token = NoToken
           loaded == LoadConfig(config, config_valid)
       IN  /\ tokens' = GetGithubTokens(args.token,
                                        IF read THEN loaded.github_tokens ELSE <<>>)
           /\ config' = IF read THEN loaded.stored ELSE config
           /\ config_valid' = IF read THEN loaded.valid ELSE config_valid
    /\ pc' = IF tokens' = <<>> THEN "returned" ELSE "open_output"
    /\ UNCHANGED <<args, results, sample, extractor, pool, token_args, output_fp, search,
                   sort_idx, page, available_tokens, call, workers, shared>>

\* lines 160-166: open(args.output, "w") succeeds or raises
OpenOutput ==
    /\ pc = "open_output"
    /\ IF args.output # NoOutput
       THEN \E ok \in BOOLEAN :
               /\ output_fp' = IF ok THEN "open" ELSE output_fp
               /\ pc' = IF ok THEN "setup" ELSE "returned"
       ELSE /\ pc' = "setup"
            /\ UNCHANGED output_fp
    /\ UNCHANGED <<inputs, locals, call, workers, shared>>

\* lines 169-181
SetupSearch ==
    /\ pc = "setup"
    /\ search' = SetupSearchParameters(args.domain, args.extend)
    /\ pc' = "for"
    /\ UNCHANGED <<inputs, output_fp, tokens, sort_idx, page, available_tokens, call,
                   workers, shared>>

----------------------------------------------------------------------------
(* SubdomainFinder.run: the search loop *)

\* lines 184-186: the next strategy, with a fresh copy of the credentials
ForNext ==
    /\ pc = "for"
    /\ IF sort_idx < Len(sort_orders)
       THEN /\ sort_idx' = sort_idx + 1
            /\ page' = 1
            /\ available_tokens' = tokens
            /\ pc' = "while"
       ELSE /\ pc' = "cleanup"
            /\ UNCHANGED <<sort_idx, page, available_tokens>>
    /\ UNCHANGED <<inputs, output_fp, tokens, search, call, workers, shared>>

\* line 191: while available_tokens
WhileCondMutantAlways(available) == TRUE
WhileCond(available) == available # <<>>

\* lines 191-200: the loop test, random.choice and the search request;
\* random.choice raises IndexError on an empty list
WhileTest ==
    /\ pc = "while"
    /\ IF ~WhileCond(available_tokens)
       THEN /\ pc' = "for"
            /\ UNCHANGED <<inputs, output_fp, locals, call, workers, shared>>
       ELSE IF available_tokens = <<>>
       THEN Unwind("aborted")
       ELSE /\ \E i \in 1..Len(available_tokens) :
                 /\ token' = available_tokens[i]
                 /\ request' = Request(token', search.search_query, page,
                                       sort_orders[sort_idx].sort,
                                       sort_orders[sort_idx].order)
            /\ depth' = 0
            /\ pc' = "request"
            /\ UNCHANGED <<inputs, output_fp, locals, response, result_json, workers,
                           shared>>

\* requests.get(url, headers=headers, timeout=10): the endpoint answers
ServerReply ==
    /\ pc = "request"
    /\ response' \in Replies(results, request.page, depth)
    /\ pc' = "response"
    /\ UNCHANGED <<inputs, output_fp, locals, token, request, depth, result_json,
                   workers, shared>>

\* lines 59-76: on a rate limit sleep and call itself with the same arguments,
\* else return the parsed body, or None after an exception
ProcessResponse ==
    /\ pc = "response"
    /\ IF ~response.exc /\ response.status = 403 /\ ShouldWait(response)
       THEN /\ depth' = depth + 1
            /\ request' = Request(request.token, request.search, request.page,
                                  request.sort, request.order)
            /\ pc' = "request"
            /\ UNCHANGED result_json
       ELSE /\ result_json' = IF ~response.exc /\ response.json_ok
                              THEN response.json ELSE None
            /\ depth' = 0
            /\ pc' = "handle"
            /\ UNCHANGED request
    /\ response' = NoReply
    /\ UNCHANGED <<inputs, output_fp, locals, token, workers, shared>>

\* line 207: 'documentation_url' in result_json or 'message' in result_json
IsApiError(json) == "documentation_url" \in json.keys \/ "message" \in json.keys

\* lines 202-222
HandleResult ==
    /\ pc = "handle"
    /\ IF ~Truthy(result_json) \/ IsApiError(result_json)
       THEN /\ available_tokens' = Remove(available_tokens, token)
            /\ pc' = "while"
            /\ UNCHANGED workers
       ELSE IF "items" \in result_json.keys /\ result_json.items # <<>>
       THEN /\ workers' = [i \in 1..MaxHits |->
                             IF i <= Len(result_json.items)
                             THEN [IdleWorker EXCEPT !.pc = "queued",
                                                     !.result = result_json.items[i]]
                             ELSE IdleWorker]
            /\ pc' = "batch"
            /\ UNCHANGED available_tokens
       ELSE /\ pc' = "for"
            /\ UNCHANGED <<available_tokens, workers>>
    /\ result_json' = None
    /\ request' = NoRequest
    /\ token' = NoToken
    /\ UNCHANGED <<inputs, output_fp, tokens, search, sort_idx, page, depth, response,
                   shared>>

----------------------------------------------------------------------------
(* extract_subdomains_from_code, one task of pool.map per hit.  The tasks  *)
(* are threads: a step is what a task does between two points where the   *)
(* interpreter may switch threads, and touches shared state at most once.  *)

Done(w, as) == [IdleWorker EXCEPT !.pc = as]

\* line 100: url in self.history_urls
AlreadySeenMutantNever(url, urls) == FALSE
AlreadySeen(url, urls) == InSeq(url, urls)

\* line 103: self.history_urls.append(url)
RecordUrl(urls, url) == Append(urls, url)

\* lines 97-101: a pool thread takes the next task, sleeps, derives the raw URL
\* (KeyError without 'html_url') and tests it against history_urls
WorkerStart(i) ==
    /\ pc = "batch"
    /\ workers[i].pc = "queued"
    /\ \A j \in 1..(i - 1) : workers[j].pc # "queued"
    /\ HasFreeThread(Cardinality({j \in 1..MaxHits : Running(workers[j])}))
    /\ LET w == workers[i] IN
       IF "html_url" \notin w.result.keys
       THEN workers' = [workers EXCEPT ![i] = Done(w, "raised")]
       ELSE LET url == GetRawUrl(w.result) IN
            IF AlreadySeen(url, history_urls)
            THEN workers' = [workers EXCEPT ![i] = Done(w, "returned")]
            ELSE workers' = [workers EXCEPT ![i].pc = "fetch", ![i].url = url]
    /\ UNCHANGED <<inputs, pc, output_fp, locals, call, shared>>

\* fetch_code(url): the text, or None after an error
FetchOutcomes(url) == {None, Str(<<>>), Str(FileText(url))}

\* line 115: match.lower().strip()
Normalize(match) == Strip(Lower(match))

\* line 117: subdomain and subdomain not in local_history
IsNewInFileMutantNoLocal(subdomain, local_history) == subdomain # <<>>
IsNewInFile(subdomain, local_history) ==
    subdomain # <<>> /\ ~InSeq(subdomain, local_history)

\* lines 114-117: the index of the first match from idx on that passes line 117,
\* Len(matches) + 1 when the loop ends
RECURSIVE SkipSeen(_, _, _)
SkipSeen(matches, idx, local_history) ==
    IF idx > Len(matches) \/ IsNewInFile(Normalize(matches[idx]), local_history)
    THEN idx
    ELSE SkipSeen(matches, idx + 1, local_history)

\* the task goes on to its next match, or to line 129 after the last one
Advance(w) ==
    LET idx == SkipSeen(w.matches, w.idx, w.local_history)
    IN  [w EXCEPT !.idx = idx, !.pc = IF idx > Len(w.matches) THEN "emit" ELSE "match"]

\* lines 103-117: record the URL, fetch, and find the matches
WorkerFetch(i) ==
    /\ pc = "batch"
    /\ workers[i].pc = "fetch"
    /\ LET w == workers[i] IN
       /\ history_urls' = RecordUrl(history_urls, w.url)
       /\ fetched' = [fetched EXCEPT ![w.url] = @ + 1]
       /\ \E code \in FetchOutcomes(w.url) :
            IF ~Truthy(code)
            THEN workers' = [workers EXCEPT ![i] = Done(w, "returned")]
            ELSE workers' = [workers EXCEPT ![i] =
                    Advance([w EXCEPT !.matches = FindAll(search.domain_regexp, code.chars),
                                      !.idx = 1])]
    /\ UNCHANGED <<inputs, pc, output_fp, locals, call, history, stdout, file>>

SourceLine(result) == Colored("yellow", "source", result.html_url)
SubdomainLine(subdomain) == Colored("green", "subdomain", subdomain)

\* lines 118-125 for a match that passed line 117: in source mode the subdomain
\* is appended at once, else it is first tested against self.history
WorkerMatch(i) ==
    /\ pc = "batch"
    /\ workers[i].pc = "match"
    /\ LET w == workers[i]
           subdomain == Normalize(w.matches[w.idx])
           seen == [w EXCEPT !.local_history = Append(@, subdomain)]
       IN
       IF args.source
       THEN /\ history' = Append(history, subdomain)
            /\ workers' = [workers EXCEPT ![i] =
                    Advance([seen EXCEPT
                        !.idx = @ + 1,
                        !.output =
                            (IF @ = <<>> THEN <<SourceLine(w.result), BlankLine>> ELSE @)
                            \o <<SubdomainLine(subdomain)>>])]
       ELSE IF ~InSeq(subdomain, history)
       THEN /\ workers' = [workers EXCEPT ![i] =
                    [seen EXCEPT !.pc = "record", !.subdomain = subdomain]]
            /\ UNCHANGED history
       ELSE /\ workers' = [workers EXCEPT ![i] = Advance([seen EXCEPT !.idx = @ + 1])]
            /\ UNCHANGED history
    /\ UNCHANGED <<inputs, pc, output_fp, locals, call, history_urls, stdout, file,
                   fetched>>

\* lines 126-127: the append that follows the test of line 125
WorkerRecord(i) ==
    /\ pc = "batch"
    /\ workers[i].pc = "record"
    /\ history' = Append(history, workers[i].subdomain)
    /\ workers' = [workers EXCEPT ![i] =
            Advance([workers[i] EXCEPT
                !.idx = @ + 1,
                !.subdomain = <<>>,
                !.output = @ \o <<SubdomainLine(workers[i].subdomain)>>])]
    /\ UNCHANGED <<inputs, pc, output_fp, locals, call, history_urls, stdout, file,
                   fetched>>

\* lines 133-134: the lines written to the file for one output text
CleanOutputMutantFirstLine(output) == <<StripColor(StripLines(output)[1])>>
CleanOutput(output) ==
    [k \in 1..Len(StripLines(output)) |-> StripColor(StripLines(output)[k])]

\* lines 129-134: print the block and write it to the file; write() may raise
WorkerEmit(i) ==
    /\ pc = "batch"
    /\ workers[i].pc = "emit"
    /\ LET w == workers[i] IN
       IF StripLines(w.output) = <<>>
       THEN /\ workers' = [workers EXCEPT ![i] = Done(w, "returned")]
            /\ UNCHANGED <<stdout, file>>
       ELSE /\ stdout' = Append(stdout, StripLines(w.output))
            /\ IF output_fp # "None"
               THEN \E ok \in BOOLEAN :
                       /\ file' = IF ok THEN file \o CleanOutput(w.output) ELSE file
                       /\ workers' = [workers EXCEPT ![i] =
                             Done(w, IF ok THEN "returned" ELSE "raised")]
               ELSE /\ workers' = [workers EXCEPT ![i] = Done(w, "returned")]
                    /\ UNCHANGED file
    /\ UNCHANGED <<inputs, pc, output_fp, locals, call, history, history_urls, fetched>>

----------------------------------------------------------------------------
(* SubdomainFinder.run: end of a batch, end of the run *)

\* pool.map raises the exception of a task once every task has ended
MapRaises(ws) == \E i \in 1..MaxHits : ws[i].pc = "raised"

\* line 220: page += 1
NextPageMutantSkip(p) == p + 2
NextPage(p) == p + 1

\* lines 215-220: pool.map returns, or raises what a task raised
Join ==
    /\ pc = "batch"
    /\ \A i \in 1..MaxHits : workers[i].pc = "idle" \/ Finished(workers[i])
    /\ IF MapRaises(workers)
       THEN Unwind("aborted")
       ELSE /\ pc' = "while"
            /\ page' = NextPage(page)
            /\ workers' = NoWorkers
            /\ UNCHANGED <<inputs, output_fp, tokens, search, sort_idx, available_tokens,
                           call, shared>>

\* lines 225-233
Cleanup ==
    /\ pc = "cleanup"
    /\ output_fp' = IF output_fp # "None" THEN "closed" ELSE output_fp
    /\ pc' = "done"
    /\ UNCHANGED <<inputs, locals, call, workers, shared>>

\* main, lines 318-319: Ctrl-C raises KeyboardInterrupt in the main thread,
\* wherever run is
Interrupt ==
    /\ pc \in {"start", "open_output", "setup", "for", "while", "request", "response",
               "handle", "batch", "cleanup"}
    /\ Unwind("interrupted")

Next ==
    \/ GetTokens
    \/ OpenOutput
    \/ SetupSearch
    \/ ForNext
    \/ WhileTest
    \/ ServerReply
    \/ ProcessResponse
    \/ HandleResult
    \/ \E i \in 1..MaxHits : WorkerStart(i)
    \/ \E i \in 1..MaxHits : WorkerFetch(i)
    \/ \E i \in 1..MaxHits : WorkerMatch(i)
    \/ \E i \in 1..MaxHits : WorkerRecord(i)
    \/ \E i \in 1..MaxHits : WorkerEmit(i)
    \/ Join
    \/ Cleanup
    \/ Interrupt

Spec == Init /\ [][Next]_vars

----------------------------------------------------------------------------
(* setup_search_parameters and re.findall on a sample: the pattern of a domain *)
(* applied to the text 'foo.' + a domain                                        *)

finder == <<args, config, config_valid, results, pc, output_fp, locals, call, workers, shared>>

\* no run of subdomain discovery takes place
FinderUnused ==
    /\ args = [domain |-> DomainOK, extend |-> FALSE, source |-> FALSE,
               output |-> NoOutput, token |-> NoToken]
    /\ config = <<>>
    /\ config_valid = TRUE
    /\ results = <<Hit(Url1)>>
    /\ FinderStart

PatternInit ==
    /\ FinderUnused
    /\ ExtractorIdle
    /\ PoolIdle
    /\ TokenIdle
    /\ rx_domain \in SampleDomains
    /\ rx_extend \in BOOLEAN
    /\ rx_code \in {FooDot(d) : d \in SampleDomains}
    /\ rx_regexp = Regexp(<<>>)
    /\ rx_found = <<>>
    /\ rx_pc = "start"

\* line 169: search_query, domain_regexp = self.setup_search_parameters(...)
SampleSetup ==
    /\ rx_pc = "start"
    /\ rx_regexp' = SetupSearchParameters(rx_domain, rx_extend).domain_regexp
    /\ rx_pc' = "setup"
    /\ UNCHANGED <<finder, extractor, pool, token_args, rx_domain, rx_extend, rx_code, rx_found>>

\* line 112: matches = re.findall(domain_regexp, code, re.IGNORECASE)
SampleFindAll ==
    /\ rx_pc = "setup"
    /\ rx_found' = FindAll(rx_regexp, rx_code)
    /\ rx_pc' = "done"
    /\ UNCHANGED <<finder, extractor, pool, token_args, rx_domain, rx_extend, rx_code, rx_regexp>>

PatternNext ==
    \/ SampleSetup
    \/ SampleFindAll

PatternSpec == PatternInit /\ [][PatternNext]_vars

----------------------------------------------------------------------------
(* PathExtractor.run, for a well-formed -orb argument *)

TreeReplies ==
    {Reply(TRUE, 0, FALSE, 0, FALSE, None)}
    \cup {Reply(FALSE, status, FALSE, 0, FALSE, None) : status \in {404, 403, 500, 200}}
    \cup {Reply(FALSE, 200, FALSE, 0, TRUE, body) :
            body \in {TreeBody({"message"}, <<>>), TreeBody({"sha"}, <<>>)}}
    \cup {Reply(FALSE, 200, FALSE, 0, TRUE, TreeBody({"sha", "tree"}, tree)) :
            tree \in Trees}

\* get_github_tree: the parsed body of a 200 response without 'message', else None
GetGithubTree(reply) ==
    IF reply.exc \/ reply.status # 200 \/ ~reply.json_ok THEN None
    ELSE IF "message" \in reply.json.keys THEN None
    ELSE reply.json

PathInit ==
    /\ FinderUnused
    /\ SampleIdle
    /\ PoolIdle
    /\ TokenIdle
    /\ tree_response \in TreeReplies
    /\ segments \in BOOLEAN
    /\ tree_data = None
    /\ path_results = <<>>
    /\ path_file = <<>>
    /\ path_pc = "start"

\* lines 155-157
PathGetTree ==
    /\ path_pc = "start"
    /\ tree_data' = GetGithubTree(tree_response)
    /\ path_pc' = IF ~Truthy(tree_data') THEN "returned" ELSE "extract"
    /\ UNCHANGED <<finder, sample, pool, token_args, tree_response, segments, path_results, path_file>>

\* lines 159-163: args.segments is passed as full_paths
PathExtract ==
    /\ path_pc = "extract"
    /\ path_results' = ExtractPathsAndSegments(tree_data, segments)
    /\ path_pc' = IF path_results' = <<>> THEN "returned" ELSE "save"
    /\ UNCHANGED <<finder, sample, pool, token_args, tree_response, segments, tree_data, path_file>>

\* lines 165-167: save_results_to_file writes every result, or fails on IOError
PathSave ==
    /\ path_pc = "save"
    /\ \E ok \in BOOLEAN : path_file' = IF ok THEN path_results ELSE <<>>
    /\ path_pc' = "done"
    /\ UNCHANGED <<finder, sample, pool, token_args, tree_response, segments, tree_data, path_results>>

PathNext ==
    \/ PathGetTree
    \/ PathExtract
    \/ PathSave

PathSpec == PathInit /\ [][PathNext]_vars

----------------------------------------------------------------------------
(* Pool(20) and pool.map for the hits of a page, by numbers of tasks: the    *)
(* threads of the pool take the tasks one by one (by chunks of two on a full *)
(* page), map returns when all have ended, and the with block ends the pool. *)

\* the pages looked at
MaxBatch == 2

PoolInit ==
    /\ FinderUnused
    /\ SampleIdle
    /\ ExtractorIdle
    /\ TokenIdle
    /\ pool = [pc |-> "search", page |-> 1, items |-> 0, queued |-> 0, running |-> 0,
               stale |-> 0]

\* lines 214-218: a page with hits: a new pool, and map queues a task per hit
PoolMap ==
    /\ pool.pc = "search"
    /\ pool.page <= MaxBatch
    /\ \E n \in 1..PerPage :
          pool' = [pool EXCEPT !.pc = "map", !.items = n, !.queued = n]
    /\ UNCHANGED <<finder, sample, extractor, token_args>>

\* a free thread of the pool takes the next task
PoolTaskStart ==
    /\ pool.pc = "map"
    /\ pool.queued > 0
    /\ HasFreeThread(pool.running)
    /\ pool' = [pool EXCEPT !.queued = @ - 1, !.running = @ + 1]
    /\ UNCHANGED <<finder, sample, extractor, token_args>>

\* a task returns
PoolTaskEnd ==
    /\ pool.running > 0
    /\ pool' = [pool EXCEPT !.running = @ - 1]
    /\ UNCHANGED <<finder, sample, extractor, token_args>>

\* map waits for every task of the page
AllEnded(p) == p.queued = 0 /\ p.running = 0

\* lines 216-220: map returns, the pool is left, page += 1; a task still in the
\* pool then would go on beside the tasks of the next page
PoolMapReturn ==
    /\ pool.pc = "map"
    /\ AllEnded(pool)
    /\ pool' = [pool EXCEPT !.pc = "search", !.page = NextPage(@), !.items = 0,
                            !.queued = 0, !.running = 0,
                            !.stale = @ + pool.queued + pool.running]
    /\ UNCHANGED <<finder, sample, extractor, token_args>>

PoolNext ==
    \/ PoolMap
    \/ PoolTaskStart
    \/ PoolTaskEnd
    \/ PoolMapReturn

PoolSpec == PoolInit /\ [][PoolNext]_vars

----------------------------------------------------------------------------
(* main.py, the token command: handle_token_commands on the configuration file *)

\* tokens in the configuration file at the start
MaxTokens == 3

\* the tokens that add_token stores: stripped and not empty
StoredTokens == {<<"a">>, <<"b">>, <<"a", "b">>, <<"b", "a">>}
\* what -t gives on the command line
TokenTexts ==
    StoredTokens \cup {<<>>, <<" ">>, <<" ", "a">>, <<"a", " ">>, <<" ", "b", "a", " ">>}
TokenActions == {"add", "remove", "list", "show"}

\* lists of stored tokens without duplicates
TokenStores ==
    {s \in UNION {[1..n -> StoredTokens] : n \in 0..MaxTokens} :
        \A i, j \in 1..Len(s) : s[i] = s[j] => i = j}

\* add_token on the loaded list (lines 81-82)
AddTokenMutantAppend(github_tokens, t) == Append(github_tokens, t)
AddToken(github_tokens, t) ==
    IF ~InSeq(t, github_tokens) THEN Append(github_tokens, t) ELSE github_tokens

\* remove_token on the loaded list (lines 91-92)
RemoveToken(github_tokens, t) ==
    IF InSeq(t, github_tokens) THEN Remove(github_tokens, t) ELSE github_tokens

TokenInit ==
    /\ args = [domain |-> DomainOK, extend |-> FALSE, source |-> FALSE,
               output |-> NoOutput, token |-> NoToken]
    /\ config \in TokenStores
    /\ config_valid \in BOOLEAN
    /\ results = <<Hit(Url1)>>
    /\ FinderStart
    /\ SampleIdle
    /\ ExtractorIdle
    /\ PoolIdle
    /\ TokenIdle

\* osgit token add -t TOKEN: the token is stripped, an empty one is refused before
\* the configuration is loaded
TokenAdd ==
    \E t \in TokenTexts :
        LET stripped == Strip(t)
            loaded == LoadConfig(config, config_valid)
        IN  /\ token_args' = [token_action |-> "add", token |-> t]
            /\ IF stripped = <<>>
               THEN UNCHANGED <<config, config_valid>>
               ELSE /\ config' = AddToken(loaded.github_tokens, stripped)
                    /\ config_valid' = loaded.valid
            /\ UNCHANGED <<args, results, pc, output_fp, locals, call, workers, shared,
                           sample, extractor, pool>>

\* osgit token remove -t TOKEN: the token is taken as given
TokenRemove ==
    \E t \in TokenTexts :
        LET loaded == LoadConfig(config, config_valid)
        IN  /\ token_args' = [token_action |-> "remove", token |-> t]
            /\ config' = RemoveToken(loaded.github_tokens, t)
            /\ config_valid' = loaded.valid
            /\ UNCHANGED <<args, results, pc, output_fp, locals, call, workers, shared,
                           sample, extractor, pool>>

\* osgit token list loads the configuration
TokenList ==
    LET loaded == LoadConfig(config, config_valid)
    IN  /\ token_args' = [token_action |-> "list", token |-> <<>>]
        /\ config' = loaded.stored
        /\ config_valid' = loaded.valid
        /\ UNCHANGED <<args, results, pc, output_fp, locals, call, workers, shared,
                       sample, extractor, pool>>

\* any other action is refused
TokenInvalid ==
    /\ \E a \in TokenActions \ {"add", "remove", "list"} :
            token_args' = [token_action |-> a, token |-> <<>>]
    /\ UNCHANGED <<finder, sample, extractor, pool>>

TokenNext ==
    \/ TokenAdd
    \/ TokenRemove
    \/ TokenList
    \/ TokenInvalid

TokenSpec == TokenInit /\ [][TokenNext]_vars

----------------------------------------------------------------------------
(* Properties *)

Range(s) == {s[i] : i \in 1..Len(s)}
Count(x, s) == Cardinality({i \in 1..Len(s) : s[i] = x})
NoDuplicates(s) == \A i, j \in 1..Len(s) : i # j => s[i] # s[j]

\* the elements of s in order of first occurrence
RECURSIVE DistinctInOrder(_)
DistinctInOrder(s) ==
    IF s = <<>> THEN <<>>
    ELSE LET front == DistinctInOrder(SubSeq(s, 1, Len(s) - 1))
         IN  IF InSeq(s[Len(s)], front) THEN front ELSE Append(front, s[Len(s)])

\* the subdomains of a printed block, in order
SubdomainsOf(block) ==
    LET subs == SelectSeq(block, LAMBDA l : l.kind = "subdomain")
    IN  [k \in 1..Len(subs) |-> subs[k].text]

\* the normalized matches of the run's pattern in the file behind a display URL
MatchesBehind(html_url) ==
    LET regexp == SetupSearchParameters(args.domain, args.extend).domain_regexp
        found == FindAll(regexp, FileText(GetRawUrl(Hit(html_url))))
    IN  [k \in 1..Len(found) |-> Normalize(found[k])]

BatchOver == pc \in {"for", "while", "cleanup", "done"}
Ended == pc \in {"done", "interrupted", "aborted"}

\* C1: within one run no raw URL is fetched more than once, also when one page
\* carries the same html_url twice and concurrent workers process it.
NoUrlFetchedTwice == \A u \in RawUrls : fetched[u] <= 1

\* C2: in non-source mode a subdomain found in different fetched files is appended
\* to self.history, and printed, exactly once across the run, under every
\* interleaving of the workers (stated for the runs that fetch no file twice).
NonSourceRecordsOnce ==
    (~args.source /\ \A u \in RawUrls : fetched[u] <= 1) =>
        /\ NoDuplicates(history)
        /\ \A s \in Range(history) :
              Cardinality({k \in 1..Len(stdout) : InSeq(s, SubdomainsOf(stdout[k]))}) <= 1

\* C3: in source mode every printed block is one fetched file: it starts with the
\* file's display URL and lists each subdomain matched in that file once, also one
\* already printed for another file; once the batches are over, self.history holds a
\* subdomain as many times as there are blocks that list it.
SourceModeOncePerFile ==
    args.source =>
        /\ \A k \in 1..Len(stdout) :
              /\ stdout[k][1].kind = "source"
              /\ NoDuplicates(SubdomainsOf(stdout[k]))
              /\ SubdomainsOf(stdout[k]) = DistinctInOrder(MatchesBehind(stdout[k][1].text))
        /\ BatchOver =>
              \A s \in Range(history) :
                 Count(s, history) =
                    Cardinality({k \in 1..Len(stdout) : InSeq(s, SubdomainsOf(stdout[k]))})

\* C3 witness: a source-mode run printed two blocks for two different files that
\* both list a.d.c, which f1 matches twice, and self.history holds it twice.
SourceModeTwoFilesWitness ==
    /\ args.source
    /\ BatchOver
    /\ Count(<<"a", ".", "d", ".", "c">>, history) = 2
    /\ \E k, l \in 1..Len(stdout) :
          /\ stdout[k][1].text = Url1
          /\ stdout[l][1].text = Url2
          /\ Count(<<"a", ".", "d", ".", "c">>, MatchesBehind(Url1)) = 2
          /\ SubdomainsOf(stdout[k]) = <<<<"a", ".", "d", ".", "c">>>>
          /\ SubdomainsOf(stdout[l]) = <<<<"b", ".", "d", ".", "c">>,
                                          <<"a", ".", "d", ".", "c">>>>

\* C4: one call of github_api_search_code reissues its request at most once,
\* whatever the reissued request returns.
AtMostOneRetry == depth <= 1

\* a 403 response that the claim says is not waited for: no reset header, or a
\* wait until reset that is not positive or is an hour or more
Unusable403(r) ==
    /\ ~r.exc
    /\ r.status = 403
    /\ ~r.has_reset \/ r.reset_in <= 0 \/ r.reset_in >= 3600

IsError(json) == ~Truthy(json) \/ IsApiError(json)

\* C5: on a 403 without reset header, or with a wait that is not positive or is an
\* hour or more, the search call returns without reissuing the request and what it
\* returns is an error; on an error the driver removes the credential used and goes
\* on with the loop.
Unusable403IsOrdinaryError ==
    [][/\ (pc = "response" /\ Unusable403(response) /\ pc' # "interrupted") =>
            /\ pc' = "handle"
            /\ request' = request
            /\ IsError(result_json')
       /\ (pc = "handle" /\ IsError(result_json) /\ pc' # "interrupted") =>
            /\ pc' = "while"
            /\ ~InSeq(token, available_tokens')
            /\ Len(available_tokens') = Len(available_tokens) - 1
            /\ page' = page /\ sort_idx' = sort_idx]_vars

\* C5 witness: the search call holds a 403 whose reset is an hour away.
Unusable403Witness ==
    /\ pc = "response"
    /\ Unusable403(response)
    /\ response.has_reset
    /\ response.reset_in >= 3600

\* C6: when no credential is left the loop of the strategy ends without an
\* exception, and the driver starts the next strategy, or finishes after the third.
ExhaustionEndsStrategy ==
    [][/\ (pc = "while" /\ available_tokens = <<>> /\ pc' # "interrupted") =>
            /\ pc' = "for"
            /\ sort_idx' = sort_idx
       /\ (pc = "for" /\ pc' # "interrupted") =>
            IF sort_idx < 3
            THEN pc' = "while" /\ sort_idx' = sort_idx + 1
            ELSE pc' = "cleanup"
       /\ (pc = "cleanup" /\ pc' # "interrupted") => pc' = "done"]_vars

\* C6 witness: the third strategy has discarded every credential of the run.
ExhaustionWitness ==
    /\ pc = "while"
    /\ sort_idx = 3
    /\ tokens # <<>>
    /\ available_tokens = <<>>

InStrategy == pc \in {"for", "while", "request", "response", "handle", "batch"} /\ sort_idx >= 1

\* C7: a credential that has been discarded is out of the live set for the rest of
\* the run, in the current strategy and in every later one.
DiscardIsPermanent ==
    [][\A t \in Range(tokens) :
         (InStrategy /\ ~InSeq(t, available_tokens)) => ~InSeq(t, available_tokens')]_vars

\* C7 as amended: a discarded credential is out of the live set for the rest of the
\* strategy: within a strategy the live set never regains a credential, a failed
\* search removes the credential used, and a search uses a credential of the live set.
DiscardLastsForStrategy ==
    [][/\ (InStrategy /\ sort_idx' = sort_idx) =>
            \A t \in Range(tokens) :
               ~InSeq(t, available_tokens) => ~InSeq(t, available_tokens')
       /\ (pc = "handle" /\ pc' = "while") => ~InSeq(token, available_tokens')
       /\ (pc = "while" /\ pc' = "request") => InSeq(token', available_tokens)]_vars

\* C7 witness: a search is in flight in a strategy that has discarded a credential.
DiscardWitness ==
    /\ pc = "request"
    /\ Len(tokens) = 2
    /\ Len(available_tokens) = 1
    /\ request.token = available_tokens[1]

\* C8: whatever happens in the tasks of a batch, the driver goes on to the next page.
BatchNeverAborts ==
    [][(pc = "batch" /\ pc' \notin {"batch", "interrupted"}) =>
          pc' = "while" /\ page' = page + 1]_vars

\* C9: for a domain without public suffix the run sends no search request and
\* fetches no file.
MalformedDomainNoRequest ==
    Extract(args.domain).suffix = <<>> =>
        /\ pc \notin {"request", "response", "handle", "batch"}
        /\ \A u \in RawUrls : fetched[u] = 0

\* C10: however the run ends, an output file that was opened is closed.
OutputClosedAtEnd == Ended => output_fp # "open"

\* C11: every line written to the output file is one subdomain without colour or
\* decoration, in source mode as in non-source mode: no line is a source header, a
\* blank line or an escape sequence.
FileHoldsOnlySubdomains ==
    \A k \in 1..Len(file) : file[k].kind = "subdomain" /\ file[k].color = ""

\* the lines of the file from position k on are whole source-mode blocks: a header,
\* a blank line, and subdomains up to the next header
RECURSIVE SourceBlocksFrom(_, _)
SourceBlocksFrom(lines, k) ==
    \/ k > Len(lines)
    \/ /\ k + 2 <= Len(lines)
       /\ lines[k].kind = "source"
       /\ lines[k + 1].kind = "blank"
       /\ lines[k + 2].kind = "subdomain"
       /\ LET rest == {j \in (k + 3)..Len(lines) : lines[j].kind # "subdomain"}
              next == IF rest = {} THEN Len(lines) + 1
                      ELSE CHOOSE j \in rest : \A o \in rest : j <= o
          IN  SourceBlocksFrom(lines, next)

\* C11 as amended: no line of the output file carries a colour; in non-source mode
\* every line is one subdomain; in source mode the file is a sequence of blocks,
\* each the line of the file's display URL, a blank line and one subdomain per line.
FileHoldsUncolouredBlocks ==
    /\ \A k \in 1..Len(file) : file[k].color = ""
    /\ ~args.source => \A k \in 1..Len(file) : file[k].kind = "subdomain"
    /\ args.source => SourceBlocksFrom(file, 1)

\* C11 witness: a source-mode run has written the blocks of two files.
SourceFileWitness ==
    /\ args.source
    /\ Len(file) >= 6
    /\ Cardinality({k \in 1..Len(file) : file[k].kind = "source"}) = 2

\* C12: the driver sends a search request only when no task of a batch is queued or
\* running: it leaves a batch only once every task of the batch has ended.
SearchOnlyAfterBatch ==
    /\ [](pc \in {"request", "response"} =>
            \A i \in 1..MaxHits : workers[i].pc = "idle")
    /\ [][(pc = "batch" /\ pc' \notin {"batch", "interrupted"}) =>
            \A i \in 1..MaxHits : workers[i].pc \in {"idle", "returned", "raised"}]_vars

\* C12 witness: the request for page 2 is in flight after a batch of two tasks that
\* both fetched their file.
SecondPageWitness ==
    /\ pc = "request"
    /\ request.page = 2
    /\ Len(history_urls) = 2

\* C13: when a search call fails (it returns None after an exception, or a body
\* with 'message' or 'documentation_url'), the driver removes the credential used
\* and no other, keeps the page number, dispatches no task, and the next request, if
\* a credential is left, is for the same page with a credential still in the set.
FailedSearchDiscardsUsedCredential ==
    [][/\ (pc = "response" /\ response.exc /\ pc' # "interrupted") =>
            pc' = "handle" /\ result_json' = None
       /\ (pc = "handle" /\ IsError(result_json) /\ pc' # "interrupted") =>
            /\ pc' = "while"
            /\ Count(token, available_tokens') = Count(token, available_tokens) - 1
            /\ \A t \in Range(tokens) \ {token} :
                  Count(t, available_tokens') = Count(t, available_tokens)
            /\ page' = page
            /\ sort_idx' = sort_idx
            /\ workers' = NoWorkers
       /\ (pc = "while" /\ available_tokens # <<>> /\ pc' # "interrupted") =>
            /\ pc' = "request"
            /\ InSeq(request'.token, available_tokens)
            /\ request'.page = page
            /\ request'.sort = sort_orders[sort_idx].sort
            /\ request'.order = sort_orders[sort_idx].order]_vars

\* C13 witness: of two credentials one has been discarded, and the search call with
\* the other one has returned None.
SecondCredentialFailedWitness ==
    /\ pc = "handle"
    /\ result_json = None
    /\ Len(tokens) = 2
    /\ available_tokens = <<token>>

\* a body of a successful search: neither None or empty nor an error object
IsSuccess(json) == Truthy(json) /\ ~IsApiError(json)
HasHits(json) == "items" \in json.keys /\ json.items # <<>>

\* C14: within a strategy the pages are requested in order from 1 on without a gap:
\* a strategy starts at page 1, a request asks for the current page, the page number
\* changes only by going up by 1 when the batch of a successful response with hits
\* is over, and a successful response without hits, or without hit list, ends the
\* strategy and discards no credential.
PagesInOrder ==
    [][/\ (pc = "for" /\ pc' = "while") => page' = 1
       /\ (pc = "while" /\ pc' = "request") => request'.page = page
       /\ (pc' = "batch" /\ pc # "batch") =>
            pc = "handle" /\ IsSuccess(result_json) /\ HasHits(result_json)
       /\ (page' # page /\ pc' \notin {"interrupted", "aborted"} /\ pc # "for") =>
            /\ pc = "batch"
            /\ \A i \in 1..MaxHits : workers[i].pc \in {"idle", "returned"}
            /\ page' = page + 1
       /\ (pc = "handle" /\ IsSuccess(result_json) /\ ~HasHits(result_json)
             /\ pc' # "interrupted") =>
            /\ pc' = "for"
            /\ available_tokens' = available_tokens]_vars

\* C14 witness: the first strategy has ended at page 2, whose response had no hits,
\* with every credential still in the working set.
StrategyEndedAtPageTwoWitness ==
    /\ pc = "for"
    /\ sort_idx = 1
    /\ page = 2
    /\ available_tokens = tokens

\* two different names that end differently share no suffix
SharesNoSuffix(a, b) == a # b /\ a[Len(a)] # b[Len(b)]

\* C15: for a domain D and extend = false, the pattern built by
\* setup_search_parameters finds 'foo.D' in the text 'foo.D', and finds nothing in
\* 'foo.other' for another domain that shares no suffix with D.
PatternSeparatesDomains ==
    (rx_pc = "done" /\ ~rx_extend) =>
        /\ rx_code = FooDot(rx_domain) => rx_found = <<rx_code>>
        /\ \A other \in SampleDomains :
              (rx_code = FooDot(other) /\ SharesNoSuffix(rx_domain, other)) =>
                  rx_found = <<>>

\* the segments of a path: its longest pieces without '/'
SegmentsOf(q) ==
    {SubSeq(q, ij[1], ij[2]) :
        ij \in {ij \in (1..Len(q)) \X (1..Len(q)) :
                  /\ ij[1] <= ij[2]
                  /\ \A k \in ij[1]..ij[2] : q[k] # "/"
                  /\ ij[1] = 1 \/ q[ij[1] - 1] = "/"
                  /\ ij[2] = Len(q) \/ q[ij[2] + 1] = "/"}}

\* the paths of the entries of a tree that have one
TreePaths(tree) ==
    {tree[k].path.chars : k \in {k \in 1..Len(tree) : Truthy(tree[k].path)}}

\* C16: extract_paths_and_segments returns a sorted list without duplicates; with
\* full_paths false its elements are the non-empty segments of the paths of the
\* tree, with full_paths true they are the paths of the tree.
ExtractedIsSortedSet ==
    (path_pc \in {"save", "done"} \/ (path_pc = "returned" /\ Truthy(tree_data))) =>
        LET tree == IF "tree" \in tree_data.keys THEN tree_data.tree ELSE <<>>
        IN  /\ \A i \in 1..(Len(path_results) - 1) :
                  StrLess(path_results[i], path_results[i + 1])
            /\ Range(path_results) =
                  IF segments THEN TreePaths(tree)
                  ELSE UNION {SegmentsOf(q) : q \in TreePaths(tree)}

\* C16 witness: for the tree [a/b/c, a/b/d, a/x] the segments a, b, c, d, x were
\* returned in this order.
SegmentsExampleWitness ==
    /\ path_pc = "save"
    /\ ~segments
    /\ tree_data.tree = <<TreeItem(Str(<<"a", "/", "b", "/", "c">>)),
                          TreeItem(Str(<<"a", "/", "b", "/", "d">>)),
                          TreeItem(Str(<<"a", "/", "x">>))>>
    /\ path_results = <<<<"a">>, <<"b">>, <<"c">>, <<"d">>, <<"x">>>>

\* C17: with an empty credential list, or an output file that cannot be opened, run
\* returns after its error message, before any search request and any fetch: the
\* search loop was never entered and history and history_urls are empty.
ConfigErrorEndsRunEarly ==
    /\ [](pc = "returned" =>
            /\ sort_idx = 0 /\ page = 0
            /\ request = NoRequest /\ response = NoReply
            /\ \A u \in RawUrls : fetched[u] = 0
            /\ history = <<>> /\ history_urls = <<>>
            /\ output_fp = "None")
    /\ [][/\ (pc = "start" /\ args.token = NoToken /\ config = <<>>
                /\ pc' # "interrupted") => pc' = "returned"
          /\ (pc = "open_output" /\ output_fp' # "open" /\ args.output # NoOutput
                /\ pc' # "interrupted") => pc' = "returned"
          /\ pc = "returned" => pc' = "returned"]_vars

\* C17 witness: run has returned because the output file could not be opened.
OutputNotOpenedWitness ==
    /\ pc = "returned"
    /\ tokens # <<>>
    /\ args.output # NoOutput

\* the three strategies in the order of the claim
FixedOrder(k) ==
    CASE k = 1 -> <<"indexed", "desc">>
      [] k = 2 -> <<"indexed", "asc">>
      [] k = 3 -> <<"", "desc">>

\* C18: the strategies (indexed, desc), (indexed, asc), (none, desc) are run in this
\* order, each once, and each starts at page 1 with the working set equal to the
\* full credential list loaded at the start of run, whatever was discarded before.
StrategiesInFixedOrder ==
    /\ [](pc \in {"request", "response"} =>
            /\ sort_idx \in 1..3
            /\ <<request.sort, request.order>> = FixedOrder(sort_idx))
    /\ [](pc = "done" => sort_idx = 3)
    /\ [][/\ (sort_idx' # sort_idx /\ pc' \notin {"interrupted", "aborted"}) =>
                pc = "for" /\ sort_idx' = sort_idx + 1
          /\ (pc = "for" /\ pc' = "while") =>
                /\ sort_idx' = sort_idx + 1
                /\ page' = 1
                /\ available_tokens' = tokens
          /\ (pc = "start" /\ pc' # "interrupted") =>
                tokens' = IF args.token # NoToken THEN <<args.token>> ELSE config'
          /\ (pc # "start" /\ pc' \notin {"interrupted", "aborted"}) =>
                tokens' = tokens]_vars

\* C18 witness: the third strategy starts at page 1 with both credentials, after
\* two strategies that fetched files.
ThirdStrategyStartsFreshWitness ==
    /\ pc = "while"
    /\ sort_idx = 3
    /\ page = 1
    /\ Len(tokens) = 2
    /\ available_tokens = tokens
    /\ history_urls # <<>>

\* C19: the request sent again after a rate-limit wait has the credential, query,
\* page, sort and order of the request that was throttled, and the wait removes no
\* credential from the working set.
ReissuedRequestIsIdentical ==
    [][(pc = "response" /\ pc' = "request") =>
          /\ response.status = 403
          /\ request'.token = request.token
          /\ request'.search = request.search
          /\ request'.page = request.page
          /\ request'.sort = request.sort
          /\ request'.order = request.order
          /\ token' = token
          /\ available_tokens' = available_tokens
          /\ InSeq(token, available_tokens')
          /\ page' = page]_vars

\* C19 witness: a request is in flight again after one rate-limit wait.
ReissuedWitness ==
    /\ pc = "request"
    /\ depth = 1
    /\ request.token = token

\* the text of each line of the output file
FileTexts == [k \in 1..Len(file) |-> file[k].text]

\* C20: in non-source mode the subdomain lines of the output file are, in this
\* order, the elements of self.history, under every interleaving of the tasks
\* (stated between the batches of a run that writes a file).
FileFollowsHistory ==
    (~args.source /\ output_fp # "None" /\ BatchOver) => FileTexts = history

\* C20 as amended: in non-source mode, between the batches, the output file holds
\* the subdomains of self.history, each as often as self.history holds it; the
\* order is that of the writes of the tasks, not that of self.history.
FileHoldsHistory ==
    (~args.source /\ output_fp # "None" /\ BatchOver) =>
        /\ Len(file) = Len(history)
        /\ \A s \in Range(history) \cup Range(FileTexts) :
              Count(s, FileTexts) = Count(s, history)

\* C20 witness: two tasks recorded a subdomain each, and the one that recorded
\* second wrote its block first.
WrittenOutOfOrderWitness ==
    /\ ~args.source
    /\ output_fp = "open"
    /\ BatchOver
    /\ Len(history) = 2
    /\ FileTexts = <<history[2], history[1]>>
    /\ history[1] # history[2]

\* C21: at most 20 tasks are executing at any moment, however many hits the page
\* has (up to 100), and all of them are tasks of the current page: none is left
\* from an earlier page, and none runs while the driver is between two pages.
AtMostTwentyTasksOfOnePage ==
    /\ pool.running <= 20
    /\ pool.stale = 0
    /\ pool.pc = "search" => pool.running = 0
    /\ pool.queued + pool.running <= pool.items
    /\ pool.items <= 100

\* C21 witness: a page of 100 hits keeps all 20 threads busy while tasks wait.
FullPoolWitness ==
    /\ pool.pc = "map"
    /\ pool.items = 100
    /\ pool.running = 20
    /\ pool.queued > 0

\* C22: a run of subdomain discovery leaves the stored github_tokens of a
\* configuration file that parses as they are, also when it discards credentials;
\* with a token override the credentials of the run are that one token and the
\* configuration file is not loaded: even a file that does not parse stays as it is.
\* Without the override a file that does not parse is written anew with an empty
\* github_tokens.
RunKeepsStoredTokens ==
    [][/\ config_valid => config' = config /\ config_valid'
       /\ args.token # NoToken => config' = config /\ config_valid' = config_valid
       /\ (pc = "start" /\ args.token # NoToken /\ pc' # "interrupted") =>
            tokens' = <<args.token>>
       /\ (pc = "start" /\ args.token = NoToken /\ ~config_valid /\ pc' # "interrupted") =>
            config' = <<>> /\ config_valid'
       /\ available_tokens' # available_tokens => config' = config]_vars

\* C22 as stated: no step of a run writes the configuration file. It fails for a
\* run without override whose configuration file does not parse: load_config
\* writes the default configuration over it.
RunNeverWritesStore ==
    [][config' = config /\ config_valid' = config_valid]_vars

\* C22 witness: with the override the only credential has been discarded, and the
\* configuration file, which does not parse, is as it was.
OverrideLeavesStoreWitness ==
    /\ pc = "while"
    /\ sort_idx >= 1
    /\ tokens = <<args.token>>
    /\ available_tokens = <<>>
    /\ ~config_valid
    /\ config = <<"t1">>

\* C23: starting from a stored list without duplicates, after any sequence of
\* token commands the stored github_tokens holds no duplicate; on a configuration
\* file that parses, adding a token that is present (as given or once stripped)
\* and removing a token that is not present leave the stored configuration as it is.
StoredTokensStayDistinct ==
    /\ [](NoDuplicates(config))
    /\ [][/\ (/\ token_args'.token_action = "add"
               /\ config_valid
               /\ \/ InSeq(token_args'.token, config)
                  \/ InSeq(Strip(token_args'.token), config)) =>
                config' = config /\ config_valid'
          /\ (/\ token_args'.token_action = "remove"
               /\ config_valid
               /\ ~InSeq(token_args'.token, config)) =>
                config' = config /\ config_valid']_vars

\* C23 witness: tokens were added up to a list of four, and the last command gave
\* a token that is stored, with blanks around it.
FullStoreWitness ==
    /\ Len(config) = 4
    /\ token_args.token_action = "add"
    /\ token_args.token = <<" ", "b", "a", " ">>
    /\ config[4] # <<"b", "a">>

\* the hits of a page whose raw URL is u
HitsWith(u) ==
    Cardinality({k \in 1..Len(results) :
        "html_url" \in results[k].keys /\ GetRawUrl(results[k]) = u})

\* s is t or a beginning of t
IsPrefix(s, t) == Len(s) <= Len(t) /\ SubSeq(t, 1, Len(s)) = s

\* C24: history and history_urls only grow; when a batch has been completed the
\* raw URL of each of its hits is in history_urls; a task that finds its raw URL
\* in history_urls returns without a fetch and without printing or recording
\* anything; so over all pages and strategies a raw URL is fetched no more often
\* than one page holds hits for it, and no more blocks are printed than fetches
\* were made.
HandledUrlNeverFetchedAgain ==
    /\ [](/\ \A u \in RawUrls : fetched[u] <= HitsWith(u)
                                  /\ Count(u, history_urls) = fetched[u]
          /\ Len(stdout) <= Len(history_urls)
          /\ (pc = "while" /\ page > 1) =>
                \A u \in RawUrls : HitsWith(u) > 0 => InSeq(u, history_urls))
    /\ [][/\ IsPrefix(history, history')
          /\ IsPrefix(history_urls, history_urls')
          /\ (pc = "handle" /\ pc' = "batch") =>
                \A i \in 1..MaxHits : workers'[i].pc \in {"queued", "idle"}
          /\ \A i \in 1..MaxHits :
                (/\ pc' = "batch"
                 /\ workers[i].pc = "queued"
                 /\ workers'[i].pc # "queued"
                 /\ "html_url" \in workers[i].result.keys
                 /\ InSeq(GetRawUrl(workers[i].result), history_urls)) =>
                    /\ workers'[i].pc = "returned"
                    /\ UNCHANGED shared]_vars

\* C24 witness: the second strategy has completed the batch of its first page,
\* whose two files were fetched once each, in the first strategy, and gave
\* subdomains.
SecondStrategySkippedWitness ==
    /\ pc = "while"
    /\ sort_idx = 2
    /\ page = 2
    /\ \A u \in RawUrls : HitsWith(u) = 1 /\ fetched[u] = 1
    /\ Len(history_urls) = 2
    /\ Len(stdout) = 2

\* task i ends in this step because fetch_code gave None or an empty text
FetchFails(i) ==
    /\ pc = "batch"
    /\ workers[i].pc = "fetch"
    /\ workers'[i].pc = "returned"

\* C25: when the fetch of a raw URL fails or gives an empty text, history, the
\* output file and the printed blocks stay as they are and the URL is in
\* history_urls; the file is not fetched again: no other task is left that has
\* passed the test of line 100 for this URL and goes on to fetch it, and a task
\* that starts later finds the URL recorded and returns without a fetch.
FailedFetchIsFinal ==
    [][/\ \A i \in 1..MaxHits :
            FetchFails(i) =>
                /\ history' = history
                /\ file' = file
                /\ stdout' = stdout
                /\ InSeq(workers[i].url, history_urls')
                /\ \A j \in 1..MaxHits \ {i} :
                      ~(workers'[j].pc = "fetch" /\ workers'[j].url = workers[i].url)
       /\ \A i \in 1..MaxHits :
            (pc = "batch" /\ workers[i].pc = "queued" /\ workers'[i].pc = "fetch") =>
                ~InSeq(workers'[i].url, history_urls)]_vars

\* C26: every iteration of the loop of a strategy, when it is over, has removed
\* one credential from available_tokens, or has ended the strategy, or has
\* increased page by one; and the run, unless the user interrupts it or it has
\* returned for want of a configuration, ends at line 233 only: it never ends
\* elsewhere.  (The server of the model answers every search call, after at most
\* MaxRetry rate limits, and gives hits on the first MaxPage pages only.)
IterationsLeadToDone ==
    /\ [](pc # "aborted")
    /\ [][/\ (pc = "handle" /\ pc' \notin {"batch", "interrupted"}) =>
                \/ /\ pc' = "while"
                   /\ Len(available_tokens') = Len(available_tokens) - 1
                   /\ page' = page
                \/ pc' = "for"
          /\ (pc = "batch" /\ pc' \notin {"batch", "interrupted"}) =>
                /\ pc' = "while"
                /\ available_tokens' = available_tokens
                /\ page' = page + 1
                /\ sort_idx' = sort_idx]_vars

====
